---- MODULE Spec2Model ----
(***************************************************************************)
(* A model of diffie_hellman/diffie_hellman.py: the primality checker, the *)
(* primitive-root checker, the two validating dataclasses and the exchange. *)
(*                                                                         *)
(* Python values are modelled as follows.                                  *)
(*   - None and every object are records with a "tag" field, so that two   *)
(*     values of different Python types are always comparable.             *)
(*   - A raised exception is an outcome ("ValueError", "AttributeError",   *)
(*     "AssertionError") carrying a record for its message.                *)
(*   - Integers are Python's unbounded integers.  The model's integers are *)
(*     machine integers, so g ** e % n is computed by reducing modulo n    *)
(*     after every multiplication (PowMod), which gives the same value for *)
(*     every n > 0; the code only evaluates it for n >= 2.                 *)
(***************************************************************************)
EXTENDS Integers, Sequences, FiniteSets, TLC

VARIABLES
    constants,  \* the two DiffieHellmanConstants a session may hold (or None)
    alice,      \* a DiffieHellman built on the first constants (or None)
    bob,        \* a DiffieHellman built on either constants (or None)
    last,       \* the most recent call: its name, arguments, outcome and value
    stdout,     \* what the most recent call printed, in order
    calls       \* the functions the most recent call called, in order

vars == <<constants, alice, bob, last, stdout, calls>>

(***************************************************************************)
(* Bounds of the model and constants of the program.                       *)
(***************************************************************************)
MinInt == 1            \* inputs range down to -MinInt
MaxN == 3              \* moduli tried by a run: -MinInt .. MaxN, and DefaultN
MaxG == 3              \* generators tried by a run: -MinInt .. MaxG, DefaultG, OtherG
MaxPrimeInput == 100   \* is_prime is applied to -MinInt .. MaxPrimeInput
MaxRootInput == 31     \* is_primitive_root_modulo_n is applied up to this g and n

RECOMMENDED_N_BIT_LENGTH == 2048
DefaultN == 23
DefaultG == 5
DefaultAlice == 4
DefaultBob == 3
OtherG == 7
PeerPublic == 10

None == [tag |-> "None"]

IsNone(x) == x.tag = "None"

(***************************************************************************)
(* Python's arithmetic.                                                    *)
(***************************************************************************)
Abs(x) == IF x < 0 THEN -x ELSE x

\* base ** e % n for e >= 0 and n > 0 (Python's result lies in 0 .. n-1 also
\* for a negative base).
RECURSIVE PowMod(_, _, _)
PowMod(base, e, n) ==
    IF e = 0 THEN 1 % n
    ELSE (PowMod(base, e - 1, n) * (base % n)) % n

\* int.bit_length(): the number of bits of abs(n).
RECURSIVE bit_length(_)
bit_length(n) ==
    IF n = 0 THEN 0
    ELSE 1 + bit_length(Abs(n) \div 2)

(***************************************************************************)
(* is_prime                                                                *)
(***************************************************************************)
PrimeError(divisor) == [tag |-> "PrimeError", divisor |-> divisor]

PrimeResult(prime, error) == [tag |-> "tuple", prime |-> prime, error |-> error]

\* the loop of is_prime, stopping at i ** 2 < n
RECURSIVE is_prime_loop_strict(_, _)
is_prime_loop_strict(n, i) ==
    IF i * i < n
    THEN IF n % i = 0 THEN PrimeResult(FALSE, PrimeError(i))
         ELSE IF n % (i + 2) = 0 THEN PrimeResult(FALSE, PrimeError(i + 2))
         ELSE is_prime_loop_strict(n, i + 6)
    ELSE PrimeResult(TRUE, None)

\* while i ** 2 <= n: ... i += 6, then return True, None
RECURSIVE is_prime_loop(_, _)
is_prime_loop(n, i) ==
    IF i * i <= n
    THEN IF n % i = 0 THEN PrimeResult(FALSE, PrimeError(i))
         ELSE IF n % (i + 2) = 0 THEN PrimeResult(FALSE, PrimeError(i + 2))
         ELSE is_prime_loop(n, i + 6)
    ELSE PrimeResult(TRUE, None)

is_prime(n) ==
    IF n <= 3 THEN PrimeResult(n > 1, None)
    ELSE IF n % 2 = 0 THEN PrimeResult(FALSE, PrimeError(2))
    ELSE IF n % 3 = 0 THEN PrimeResult(FALSE, PrimeError(3))
    ELSE is_prime_loop(n, 5)

(***************************************************************************)
(* is_primitive_root_modulo_n                                              *)
(***************************************************************************)
PrimitiveRootError(current, remainder, previous) ==
    [tag |-> "PrimitiveRootError", current |-> current,
     remainder |-> remainder, previous |-> previous]

RootResult(root, error) == [tag |-> "tuple", root |-> root, error |-> error]

\* remainders = {}
EmptyDict == [k \in {} |-> 0]

\* remainders[key] = value
DictSet(dict, key, value) ==
    [k \in (DOMAIN dict) \cup {key} |-> IF k = key THEN value ELSE dict[k]]

\* the loop of is_primitive_root_modulo_n with remainder = g * i % n
RECURSIVE is_primitive_root_loop_times(_, _, _, _)
is_primitive_root_loop_times(g, n, i, remainders) ==
    IF i >= n - 1 THEN RootResult(TRUE, None)
    ELSE LET remainder == (g * i) % n
         IN  IF remainder \in DOMAIN remainders
             THEN RootResult(FALSE, PrimitiveRootError(i, remainder,
                                                       remainders[remainder]))
             ELSE is_primitive_root_loop_times(g, n, i + 1,
                                               DictSet(remainders, remainder, i))

\* the loop of is_primitive_root_modulo_n reporting the exponent before the
\* current one as the previous one
RECURSIVE is_primitive_root_loop_last(_, _, _, _)
is_primitive_root_loop_last(g, n, i, remainders) ==
    IF i >= n - 1 THEN RootResult(TRUE, None)
    ELSE LET remainder == PowMod(g, i, n)
         IN  IF remainder \in DOMAIN remainders
             THEN RootResult(FALSE, PrimitiveRootError(i, remainder, i - 1))
             ELSE is_primitive_root_loop_last(g, n, i + 1,
                                              DictSet(remainders, remainder, i))

\* for i in range(n - 1): ..., then return True, None.  The loop is at
\* exponent i with the dictionary remainders; range(n - 1) is empty for n <= 1.
RECURSIVE is_primitive_root_loop(_, _, _, _)
is_primitive_root_loop(g, n, i, remainders) ==
    IF i >= n - 1 THEN RootResult(TRUE, None)
    ELSE LET remainder == PowMod(g, i, n)
         IN  IF remainder \in DOMAIN remainders
             THEN RootResult(FALSE, PrimitiveRootError(i, remainder,
                                                       remainders[remainder]))
             ELSE is_primitive_root_loop(g, n, i + 1,
                                         DictSet(remainders, remainder, i))

is_primitive_root_modulo_n(g, n) == is_primitive_root_loop(g, n, 0, EmptyDict)

(***************************************************************************)
(* The outcome of a call: what it returned or raised, what it printed and  *)
(* which functions of the module it called.                                *)
(***************************************************************************)
Result(outcome, value, out, called) ==
    [outcome |-> outcome, value |-> value, stdout |-> out, calls |-> called]

PyInt(v) == [tag |-> "int", int |-> v]

(***************************************************************************)
(* DiffieHellmanConstants                                                  *)
(***************************************************************************)
DiffieHellmanConstants(g, n) == [tag |-> "DiffieHellmanConstants", g |-> g, n |-> n]

\* the __eq__ the dataclass generates: the tuples of fields are equal
ConstantsEqByModulus(c, d) == c.n = d.n

ConstantsEq(c, d) == c.g = d.g /\ c.n = d.n

\* the warning about the bit length of n, when it is printed
Warning(n) ==
    IF bit_length(n) < RECOMMENDED_N_BIT_LENGTH
    THEN <<[tag |-> "Warning", n |-> n, bit_length |-> bit_length(n),
            recommended |-> RECOMMENDED_N_BIT_LENGTH]>>
    ELSE <<>>

\* what __post_init__ does once n is known to be prime
CheckRoot(g, n, out) ==
    LET r == is_primitive_root_modulo_n(g, n)
        called == <<"is_prime", "is_primitive_root_modulo_n">>
    IN  IF ~r.root
        THEN Result("ValueError",
                    [msg |-> "g is not a primitive root modulo n", g |-> g,
                     n |-> n, current |-> r.error.current,
                     remainder |-> r.error.remainder,
                     previous |-> r.error.previous],
                    out, called)
        ELSE Result("return", None, out, called)

\* what __post_init__ does once n is known not to be prime; error.divisor
\* of None raises AttributeError
RejectModulus(n, error, out) ==
    IF n = 0
    THEN Result("ValueError", [msg |-> "n cannot be zero"], out, <<"is_prime">>)
    ELSE IF n = 1
    THEN Result("ValueError", [msg |-> "n cannot be one"], out, <<"is_prime">>)
    ELSE IF IsNone(error)
    THEN Result("AttributeError", [msg |-> "None has no attribute divisor"],
                out, <<"is_prime">>)
    ELSE Result("ValueError",
                [msg |-> "n needs to be prime", n |-> n,
                 divisor |-> error.divisor, cofactor |-> n \div error.divisor],
                out, <<"is_prime">>)

\* __post_init__ printing the warning before it checks that n is prime
DiffieHellmanConstants_post_init_warn_first(g, n) ==
    LET p == is_prime(n)
    IN  IF ~p.prime THEN RejectModulus(n, p.error, Warning(n))
        ELSE CheckRoot(g, n, Warning(n))

DiffieHellmanConstants_post_init(g, n) ==
    LET p == is_prime(n)
    IN  IF ~p.prime THEN RejectModulus(n, p.error, <<>>)
        ELSE CheckRoot(g, n, Warning(n))

(***************************************************************************)
(* DiffieHellman                                                           *)
(***************************************************************************)
DiffieHellman(c, secret) == [tag |-> "DiffieHellman", constants |-> c, secret |-> secret]

\* __post_init__ rejecting a secret equal to n
DiffieHellman_post_init_exclusive(c, secret) ==
    IF secret < 1
    THEN Result("ValueError",
                [msg |-> "secret needs to be at least 1", secret |-> secret],
                <<>>, <<>>)
    ELSE IF secret >= c.n
    THEN Result("ValueError",
                [msg |-> "secret needs to be less than n", secret |-> secret,
                 n |-> c.n],
                <<>>, <<>>)
    ELSE Result("return", None, <<>>, <<>>)

DiffieHellman_post_init(c, secret) ==
    IF secret < 1
    THEN Result("ValueError",
                [msg |-> "secret needs to be at least 1", secret |-> secret],
                <<>>, <<>>)
    ELSE IF secret > c.n
    THEN Result("ValueError",
                [msg |-> "secret needs to be less than n", secret |-> secret,
                 n |-> c.n],
                <<>>, <<>>)
    ELSE Result("return", None, <<>>, <<>>)

(***************************************************************************)
(* The exchange                                                            *)
(***************************************************************************)
\* g * secret % n
calculate_public_times(dh) == (dh.constants.g * dh.secret) % dh.constants.n

calculate_public(dh) == PowMod(dh.constants.g, dh.secret, dh.constants.n)

\* g ** secret % n, ignoring the public value of the peer
calculate_shared_own(dh, public) ==
    PowMod(dh.constants.g, dh.secret, dh.constants.n)

calculate_shared(dh, public) == PowMod(public, dh.secret, dh.constants.n)

Public(who, value) == [tag |-> "Public Value", of |-> who, value |-> value]

diffie_hellman(a, b) ==
    IF ~ConstantsEq(a.constants, b.constants)
    THEN Result("ValueError",
                [msg |-> "Alice and Bob need to be using the same DiffieHellmanConstants",
                 alice |-> a.constants, bob |-> b.constants],
                <<>>, <<>>)
    ELSE LET alice_public == calculate_public(a)
             bob_public == calculate_public(b)
             alice_shared == calculate_shared(a, bob_public)
             bob_shared == calculate_shared(b, alice_public)
             out == <<Public("Alice", alice_public), Public("Bob", bob_public)>>
             called == <<"calculate_public", "calculate_public",
                         "calculate_shared", "calculate_shared">>
         IN  IF alice_shared # bob_shared
             THEN Result("AssertionError",
                         [msg |-> "alice_shared == bob_shared",
                          alice_shared |-> alice_shared,
                          bob_shared |-> bob_shared],
                         out, called)
             ELSE Result("return", PyInt(alice_shared), out, called)

\* the reference tables of the tests
PRIMES ==
    {2, 3, 5, 7, 11, 13, 17, 19, 23, 29, 31, 37, 41, 43, 47, 53, 59, 61, 67,
     71, 73, 79, 83, 89, 97}

PRIMITIVE_ROOTS ==
    [n \in {5, 7, 11, 13, 17, 19, 23, 29, 31} |->
        CASE n = 5 -> {2, 3}
          [] n = 7 -> {3, 5}
          [] n = 11 -> {2, 6, 7, 8}
          [] n = 13 -> {2, 6, 7, 11}
          [] n = 17 -> {3, 5, 6, 7, 10, 11, 12, 14}
          [] n = 19 -> {2, 3, 10, 13, 14, 15}
          [] n = 23 -> {5, 7, 10, 11, 14, 15, 17, 19, 20, 21}
          [] n = 29 -> {2, 3, 8, 10, 11, 14, 15, 18, 19, 21, 26, 27}
          [] n = 31 -> {3, 11, 12, 13, 17, 21, 22, 24}]

(***************************************************************************)
(* The state of a call, and the state of a session before any call.        *)
(***************************************************************************)
Call(op, args, outcome, value) ==
    [op |-> op, args |-> args, outcome |-> outcome, value |-> value]

NoObjects ==
    /\ constants = [slot \in 1..2 |-> None]
    /\ alice = None
    /\ bob = None
    /\ stdout = <<>>
    /\ calls = <<>>

(***************************************************************************)
(* Spec: a run of the module as its callers (the script under __main__ and  *)
(* the tests) drive it: it builds the constants, then alice, then bob, and *)
(* makes one call of the exchange; an exception that is raised ends it.    *)
(***************************************************************************)
NInputs == ((-MinInt)..MaxN) \cup {DefaultN}

GInputs == ((-MinInt)..MaxG) \cup {DefaultG, OtherG}

SecretInputs == ((-MinInt)..(MaxN + 1)) \cup {DefaultN, DefaultN + 1}

PublicInputs == ((-MinInt)..MinInt) \cup {DefaultAlice, PeerPublic}

Init ==
    /\ NoObjects
    /\ last = Call("none", <<>>, "none", None)

Finish(op, args, r) ==
    /\ last' = Call(op, args, r.outcome, r.value)
    /\ stdout' = r.stdout
    /\ calls' = r.calls

\* no exception was raised and no call of the exchange was made yet
Running ==
    /\ last.op \in {"none", "DiffieHellmanConstants", "DiffieHellman"}
    /\ last.outcome \in {"none", "return"}

\* constants[slot] = DiffieHellmanConstants(g=g, n=n)
NewConstants(slot, g, n) ==
    LET r == DiffieHellmanConstants_post_init(g, n)
    IN  /\ Running
        /\ IsNone(constants[slot])
        /\ \A earlier \in 1..(slot - 1) : ~IsNone(constants[earlier])
        /\ IsNone(alice)
        /\ IsNone(bob)
        /\ constants' = IF r.outcome = "return"
                        THEN [constants EXCEPT ![slot] = DiffieHellmanConstants(g, n)]
                        ELSE constants
        /\ Finish("DiffieHellmanConstants", <<g, n>>, r)
        /\ UNCHANGED <<alice, bob>>

\* alice = DiffieHellman(constants[1], secret)
NewAlice(secret) ==
    LET r == DiffieHellman_post_init(constants[1], secret)
    IN  /\ Running
        /\ IsNone(alice)
        /\ IsNone(bob)
        /\ ~IsNone(constants[1])
        /\ alice' = IF r.outcome = "return"
                    THEN DiffieHellman(constants[1], secret)
                    ELSE alice
        /\ Finish("DiffieHellman", <<constants[1], secret>>, r)
        /\ UNCHANGED <<constants, bob>>

\* bob = DiffieHellman(constants[slot], secret)
NewBob(slot, secret) ==
    LET r == DiffieHellman_post_init(constants[slot], secret)
    IN  /\ Running
        /\ IsNone(bob)
        /\ ~IsNone(alice)
        /\ ~IsNone(constants[slot])
        /\ bob' = IF r.outcome = "return"
                  THEN DiffieHellman(constants[slot], secret)
                  ELSE bob
        /\ Finish("DiffieHellman", <<constants[slot], secret>>, r)
        /\ UNCHANGED <<constants, alice>>

Participants == {dh \in {alice, bob} : ~IsNone(dh)}

CallCalculatePublic(dh) ==
    /\ Running
    /\ Finish("calculate_public", <<dh>>,
              Result("return", PyInt(calculate_public(dh)), <<>>, <<>>))
    /\ UNCHANGED <<constants, alice, bob>>

CallCalculateShared(dh, public) ==
    /\ Running
    /\ Finish("calculate_shared", <<dh, PyInt(public)>>,
              Result("return", PyInt(calculate_shared(dh, public)), <<>>, <<>>))
    /\ UNCHANGED <<constants, alice, bob>>

CallDiffieHellman(a, b) ==
    /\ Running
    /\ Finish("diffie_hellman", <<a, b>>, diffie_hellman(a, b))
    /\ UNCHANGED <<constants, alice, bob>>

Next ==
    \/ \E slot \in 1..2, g \in GInputs, n \in NInputs : NewConstants(slot, g, n)
    \/ \E secret \in SecretInputs : NewAlice(secret)
    \/ \E slot \in 1..2, secret \in SecretInputs : NewBob(slot, secret)
    \/ \E dh \in Participants : CallCalculatePublic(dh)
    \/ \E dh \in Participants, public \in PublicInputs : CallCalculateShared(dh, public)
    \/ \E a \in Participants, b \in Participants : CallDiffieHellman(a, b)

Spec == Init /\ [][Next]_vars

(***************************************************************************)
(* The claims about a run.                                                 *)
(***************************************************************************)
\* n is prime: greater than one and with no divisor between 2 and n - 1
IsPrimeNumber(n) == n > 1 /\ \A d \in 2..(n - 1) : n % d # 0

\* base ** e, where it fits a machine integer
RECURSIVE Pow(_, _)
Pow(base, e) == IF e = 0 THEN 1 ELSE base * Pow(base, e - 1)

PowFits(base, e) == e * bit_length(base) <= 30

\* base ** e mod n by repeated squaring, for e >= 0 and n > 0
RECURSIVE PowModBySquaring(_, _, _)
PowModBySquaring(base, e, n) ==
    IF e = 0 THEN 1 % n
    ELSE LET half == PowModBySquaring(base, e \div 2, n)
         IN  IF e % 2 = 1 THEN (((half * half) % n) * (base % n)) % n
             ELSE (half * half) % n

\* the number b with 2^(b-1) <= n < 2^b, for n >= 1
BitsOf(n) == CHOOSE b \in 1..31 : Pow(2, b - 1) <= n /\ (b = 31 \/ n < Pow(2, b))

\* C1: when both participants hold equal constants, diffie_hellman computes
\* calculate_shared(a, calculate_public(b)) and
\* calculate_shared(b, calculate_public(a)), they are equal, the assertion
\* holds and the common value, g^(a.secret * b.secret) mod n, is returned.
C1_SharedSecretsAgree ==
    (/\ last.op = "diffie_hellman"
     /\ last.args[1].constants.g = last.args[2].constants.g
     /\ last.args[1].constants.n = last.args[2].constants.n) =>
        LET a == last.args[1]
            b == last.args[2]
            a_shared == calculate_shared(a, calculate_public(b))
            b_shared == calculate_shared(b, calculate_public(a))
        IN  /\ last.outcome = "return"
            /\ a_shared = b_shared
            /\ last.value = PyInt(a_shared)
            /\ last.value.int =
                   PowModBySquaring(a.constants.g, a.secret * b.secret, a.constants.n)
            /\ stdout = <<Public("Alice", calculate_public(a)),
                          Public("Bob", calculate_public(b))>>

\* the exchange of the tests: g = 5, n = 23, secrets 4 and 3, shared secret 18
C1_Witness ==
    /\ last.op = "diffie_hellman"
    /\ last.args[1] = DiffieHellman(DiffieHellmanConstants(DefaultG, DefaultN), DefaultAlice)
    /\ last.args[2] = DiffieHellman(DiffieHellmanConstants(DefaultG, DefaultN), DefaultBob)
    /\ last.outcome = "return"
    /\ last.value.int = 18

\* the powers of g generate every nonzero residue modulo n
IsPrimitiveRootOf(g, n) == {PowMod(g, k, n) : k \in 1..(n - 1)} = 1..(n - 1)

\* C2: every DiffieHellmanConstants that was constructed has a prime n and a
\* g that is a primitive root modulo n.
C2_ConstantsValid ==
    \A slot \in 1..2 :
        ~IsNone(constants[slot]) =>
            /\ constants[slot].n > 1
            /\ \A d \in 2..(constants[slot].n - 1) : constants[slot].n % d # 0
            /\ IsPrimitiveRootOf(constants[slot].g, constants[slot].n)

ConstructedConstants == last.op = "DiffieHellmanConstants"

\* C3: constructing DiffieHellmanConstants with an n that is_prime reports
\* as not prime raises ValueError before the primitive-root check: "cannot be
\* zero" for 0, "cannot be one" for 1, and otherwise the divisor found by
\* is_prime with the cofactor, whose product is n.
C3_NonPrimeModulusRejected ==
    (ConstructedConstants /\ ~is_prime(last.args[2]).prime) =>
        LET n == last.args[2]
        IN  /\ last.outcome = "ValueError"
            /\ calls = <<"is_prime">>
            /\ (n = 0) => last.value.msg = "n cannot be zero"
            /\ (n = 1) => last.value.msg = "n cannot be one"
            /\ (n \notin {0, 1}) =>
                   /\ last.value.msg = "n needs to be prime"
                   /\ last.value.divisor = is_prime(n).error.divisor
                   /\ last.value.divisor * last.value.cofactor = n

\* C4: DiffieHellman(constants, secret) is constructed exactly when
\* 1 <= secret <= n; a smaller secret raises "needs to be at least 1", a
\* larger one "needs to be less than n"; every participant that exists has
\* 1 <= secret <= n.
C4_SecretRange ==
    /\ \A dh \in Participants : 1 <= dh.secret /\ dh.secret <= dh.constants.n
    /\ (last.op = "DiffieHellman") =>
           LET c == last.args[1]
               secret == last.args[2]
           IN  /\ (last.outcome = "return") <=> (1 <= secret /\ secret <= c.n)
               /\ (last.outcome = "return") =>
                      DiffieHellman(c, secret) \in Participants
               /\ (secret < 1) =>
                      /\ last.outcome = "ValueError"
                      /\ last.value.msg = "secret needs to be at least 1"
               /\ (secret > c.n) =>
                      /\ last.outcome = "ValueError"
                      /\ last.value.msg = "secret needs to be less than n"

\* a participant whose secret is n itself
C4_Witness ==
    /\ last.op = "DiffieHellman"
    /\ last.args[2] = last.args[1].n
    /\ last.outcome = "return"
    /\ ~IsNone(bob)
    /\ bob.secret = bob.constants.n

\* C5: diffie_hellman raises the mismatch error exactly when the constants
\* of the two participants differ in g or in n, and then it has called
\* neither calculate_public nor calculate_shared and has printed nothing.
C5_MismatchIffDifferent ==
    (last.op = "diffie_hellman") =>
        LET a == last.args[1]
            b == last.args[2]
            differ == \/ a.constants.g # b.constants.g
                      \/ a.constants.n # b.constants.n
        IN  /\ (last.outcome = "ValueError") <=> differ
            /\ differ =>
                   /\ last.value.msg =
                          "Alice and Bob need to be using the same DiffieHellmanConstants"
                   /\ last.value.alice = a.constants
                   /\ last.value.bob = b.constants
                   /\ calls = <<>>
                   /\ stdout = <<>>

\* participants whose constants have the same n and differ in g only
C5_Witness ==
    /\ last.op = "diffie_hellman"
    /\ last.args[1].constants.n = last.args[2].constants.n
    /\ last.args[1].constants.g # last.args[2].constants.g
    /\ last.outcome = "ValueError"

\* C9: calculate_public returns g ** secret % n and calculate_shared returns
\* public ** secret % n, each in 0 .. n-1, and the participant and its
\* constants are as they were; for g = 5 and n = 23, secret 4 gives public 4,
\* secret 3 gives public 10, and (4, peer 10) and (3, peer 4) give shared 18.
C9_PublicAndSharedValues ==
    /\ (last.op = "calculate_public") =>
           LET dh == last.args[1]
               c == dh.constants
               v == last.value.int
           IN  /\ last.outcome = "return"
               /\ v \in 0..(c.n - 1)
               /\ PowFits(c.g, dh.secret) => v = Pow(c.g, dh.secret) % c.n
               /\ (c = DiffieHellmanConstants(5, 23) /\ dh.secret = 4) => v = 4
               /\ (c = DiffieHellmanConstants(5, 23) /\ dh.secret = 3) => v = 10
               /\ dh \in {alice, bob}
               /\ c \in {constants[1], constants[2]}
    /\ (last.op = "calculate_shared") =>
           LET dh == last.args[1]
               c == dh.constants
               public == last.args[2].int
               v == last.value.int
           IN  /\ last.outcome = "return"
               /\ v \in 0..(c.n - 1)
               /\ PowFits(public, dh.secret) => v = Pow(public, dh.secret) % c.n
               /\ (c = DiffieHellmanConstants(5, 23) /\ dh.secret = 4 /\ public = 10)
                      => v = 18
               /\ (c = DiffieHellmanConstants(5, 23) /\ dh.secret = 3 /\ public = 4)
                      => v = 18
               /\ dh \in {alice, bob}
               /\ c \in {constants[1], constants[2]}

\* the shared secret of the tests: secret 4 and the public value 10 of the peer
C9_Witness ==
    /\ last.op = "calculate_shared"
    /\ last.args[1] = DiffieHellman(DiffieHellmanConstants(DefaultG, DefaultN), DefaultAlice)
    /\ last.args[2].int = PeerPublic
    /\ last.value.int = 18

\* C10 as stated, for the moduli n >= 0: every construction whose n has fewer
\* bits than recommended prints the warning exactly once.
C10_AdvisoryOncePerConstruction ==
    (/\ ConstructedConstants
     /\ last.args[2] >= 0
     /\ bit_length(last.args[2]) < RECOMMENDED_N_BIT_LENGTH) =>
        /\ Len(stdout) = 1
        /\ stdout[1].tag = "Warning"

\* C10 as amended: a construction prints the warning exactly once when n is
\* prime and has fewer bits than recommended, naming the actual and the
\* recommended bit length, and prints nothing when n is not prime; the
\* construction succeeds exactly when n is prime and g passes the
\* primitive-root check, and fails on g after the warning otherwise.
C10_AdvisoryOnceAfterPrimality ==
    ConstructedConstants =>
        LET g == last.args[1]
            n == last.args[2]
            prime == IsPrimeNumber(n)
        IN  /\ (prime /\ BitsOf(n) < RECOMMENDED_N_BIT_LENGTH) =>
                   stdout = <<[tag |-> "Warning", n |-> n, bit_length |-> BitsOf(n),
                               recommended |-> 2048]>>
            /\ ~prime => stdout = <<>>
            /\ (last.outcome = "return") <=>
                   (prime /\ is_primitive_root_modulo_n(g, n).root)
            /\ (prime /\ ~is_primitive_root_modulo_n(g, n).root) =>
                   /\ last.outcome = "ValueError"
                   /\ last.value.msg = "g is not a primitive root modulo n"

\* the warning is printed and the construction then fails on g: 2 is not a
\* primitive root modulo 23, whose bit length is 5
C10_Witness ==
    /\ ConstructedConstants
    /\ last.args = <<2, DefaultN>>
    /\ Len(stdout) = 1
    /\ stdout[1].bit_length = 5
    /\ last.outcome = "ValueError"

(***************************************************************************)
(* SpecPrime: is_prime applied to each input once.                         *)
(***************************************************************************)
PrimeInputs == (-MinInt)..MaxPrimeInput

InitPrime ==
    /\ NoObjects
    /\ \E n \in PrimeInputs : last = Call("is_prime", <<n>>, "pending", None)

CallIsPrime ==
    /\ last.op = "is_prime"
    /\ last.outcome = "pending"
    /\ last' = Call("is_prime", last.args, "return", is_prime(last.args[1]))
    /\ calls' = <<"is_prime">>
    /\ UNCHANGED <<constants, alice, bob, stdout>>

NextPrime == CallIsPrime

SpecPrime == InitPrime /\ [][NextPrime]_vars

IsPrimeDone == last.op = "is_prime" /\ last.outcome = "return"

\* C6: for every n from 0 to 100 is_prime reports prime exactly when n is
\* prime (0 and 1 are not, 2 and 3 are), and a witness divisor it returns is a
\* proper divisor of n.
C6_IsPrimeMatchesReference ==
    (IsPrimeDone /\ last.args[1] \in 0..100) =>
        LET n == last.args[1]
            r == last.value
        IN  /\ r.prime = IsPrimeNumber(n)
            /\ r.prime = (n \in PRIMES)
            /\ (n \in {0, 1}) => (~r.prime /\ IsNone(r.error))
            /\ (n \in {2, 3}) => r.prime
            /\ r.prime => IsNone(r.error)
            /\ ~IsNone(r.error) =>
                   /\ r.error.divisor \in 2..(n - 1)
                   /\ n % r.error.divisor = 0
                   /\ (n \div r.error.divisor) * r.error.divisor = n

\* a composite whose least divisor is found by the loop, at i + 2
C6_Witness ==
    /\ IsPrimeDone
    /\ last.args[1] = 49
    /\ ~last.value.prime
    /\ last.value.error.divisor = 7

(***************************************************************************)
(* SpecRoot: is_primitive_root_modulo_n applied to each input once.        *)
(***************************************************************************)
RootInputs == (-MinInt)..MaxRootInput

InitRoot ==
    /\ NoObjects
    /\ \E g \in RootInputs, n \in RootInputs :
           last = Call("is_primitive_root_modulo_n", <<g, n>>, "pending", None)

CallIsPrimitiveRoot ==
    /\ last.op = "is_primitive_root_modulo_n"
    /\ last.outcome = "pending"
    /\ last' = Call("is_primitive_root_modulo_n", last.args, "return",
                    is_primitive_root_modulo_n(last.args[1], last.args[2]))
    /\ calls' = <<"is_primitive_root_modulo_n">>
    /\ UNCHANGED <<constants, alice, bob, stdout>>

NextRoot == CallIsPrimitiveRoot

SpecRoot == InitRoot /\ [][NextRoot]_vars

\* the least k in 1 .. n-1 with g^k = 1 modulo n, or 0 when there is none
MultiplicativeOrder(g, n) ==
    LET ks == {k \in 1..(n - 1) : PowMod(g, k, n) = 1}
    IN  IF ks = {} THEN 0 ELSE CHOOSE k \in ks : \A j \in ks : k <= j

IsRootDone == last.op = "is_primitive_root_modulo_n" /\ last.outcome = "return"

\* C7: for every prime n of the reference table and every g in 0 .. n-1,
\* is_primitive_root_modulo_n reports a root exactly when the multiplicative
\* order of g modulo n is n - 1, which is when the table lists g; 0 and 1 are
\* reported as not roots.
C7_RootMatchesReference ==
    (IsRootDone /\ last.args[2] \in DOMAIN PRIMITIVE_ROOTS
                /\ last.args[1] \in 0..(last.args[2] - 1)) =>
        LET g == last.args[1]
            n == last.args[2]
            r == last.value
        IN  /\ r.root = (MultiplicativeOrder(g, n) = n - 1)
            /\ r.root = IsPrimitiveRootOf(g, n)
            /\ r.root = (g \in PRIMITIVE_ROOTS[n])
            /\ (g \in {0, 1}) => ~r.root
            /\ r.root = IsNone(r.error)

\* a non-root of order (n - 1) / 2, which only the exponents tell from a root
C7_Witness ==
    /\ IsRootDone
    /\ last.args = <<4, 23>>
    /\ ~last.value.root

\* C8: a not-a-root witness has 0 <= previous < current <= n - 2 and
\* remainder = g^current mod n = g^previous mod n; previous is the first
\* exponent with that residue and no residue repeats before current.
C8_RootWitnessSound ==
    (IsRootDone /\ ~last.value.root) =>
        LET g == last.args[1]
            n == last.args[2]
            e == last.value.error
        IN  /\ e.tag = "PrimitiveRootError"
            /\ 0 <= e.previous
            /\ e.previous < e.current
            /\ e.current <= n - 2
            /\ e.remainder = PowMod(g, e.current, n)
            /\ e.remainder = PowMod(g, e.previous, n)
            /\ \A k \in 0..(e.previous - 1) : PowMod(g, k, n) # e.remainder
            /\ \A j \in 0..(e.current - 1) : \A k \in 0..(j - 1) :
                   PowMod(g, k, n) # PowMod(g, j, n)

\* a repeat that is not of the residue just before it: 2^3 = 2^0 modulo 7
C8_Witness ==
    /\ IsRootDone
    /\ last.args = <<2, 7>>
    /\ ~last.value.root
    /\ last.value.error.current = 3
    /\ last.value.error.previous = 0
====
